---- MODULE Spec2Model ----
(***************************************************************************)
(* tools/scripts/uci_to_fen.py: the conversion of a UCI "position" command *)
(* into a FEN string.  The program's strings are TLA+ strings, taken apart *)
(* character by character as str.startswith, str.split, " ".join,          *)
(* chess.Board(fen), chess.Move.from_uci and board.fen() take them apart.  *)
(* The python-chess calls of the script (Board, Move.from_uci,             *)
(* legal_moves, push, fen, str) are modelled where the script calls them.  *)
(***************************************************************************)
EXTENDS Integers, Sequences, FiniteSets, TLC

VARIABLES argv, pc, uci_command, parts, board, start_idx, moves, idx,
          decoded, stdout, result, exc, exit_code

vars == <<argv, pc, uci_command, parts, board, start_idx, moves, idx,
          decoded, stdout, result, exc, exit_code>>

(***************************************************************************)
(* Python strings.                                                         *)
(***************************************************************************)

\* s[i-1] of Python: the i-th character of s, as a one-character string.
Ch(s, i) == SubSeq(s, i, i)

\* str.startswith(p)
StartsWith(s, p) == Len(s) >= Len(p) /\ SubSeq(s, 1, Len(p)) = p

\* the characters str.split() with no argument splits on
IsSpace(c) == c \in {" ", "\t", "\n", "\r"}

\* the k-th smallest element of a set of numbers
Nth(S, k) == CHOOSE x \in S : Cardinality({y \in S : y < x}) = k - 1

\* str.split(): the maximal runs of non-whitespace characters, in order.
\* (the positions where a run starts and where one ends are computed once)
Split(s) ==
    CHOOSE tokens \in
        {[k \in 1..Cardinality(run[1]) |-> SubSeq(s, Nth(run[1], k), Nth(run[2], k))] :
            run \in {<<{i \in 1..Len(s) :
                          ~IsSpace(Ch(s, i)) /\ (i = 1 \/ IsSpace(Ch(s, i - 1)))},
                       {i \in 1..Len(s) :
                          ~IsSpace(Ch(s, i)) /\ (i = Len(s) \/ IsSpace(Ch(s, i + 1)))}>>}} :
        TRUE

\* str.split(sep) for a one-character sep: empty pieces are kept.
SplitOn(s, sep) ==
    CHOOSE pieces \in
        {[k \in 1..(Cardinality(cuts) + 1) |->
            SubSeq(s,
                   IF k = 1 THEN 1 ELSE Nth(cuts, k - 1) + 1,
                   IF k = Cardinality(cuts) + 1 THEN Len(s) ELSE Nth(cuts, k) - 1)] :
            cuts \in {{i \in 1..Len(s) : Ch(s, i) = sep}}} :
        TRUE

RECURSIVE JoinFrom(_, _, _)
JoinFrom(sep, seq, i) ==
    IF i > Len(seq) THEN ""
    ELSE IF i = Len(seq) THEN seq[i]
    ELSE seq[i] \o sep \o JoinFrom(sep, seq, i + 1)

\* sep.join(seq)
Join(sep, seq) == JoinFrom(sep, seq, 1)

\* seq[a:b] of Python (0-based, b excluded, clipped to the sequence).
Slice(seq, a, b) ==
    SubSeq(seq, a + 1, IF b < Len(seq) THEN b ELSE Len(seq))

\* seq[a:] of Python.
SliceFrom(seq, a) == SubSeq(seq, a + 1, Len(seq))

DigitChars == <<"0", "1", "2", "3", "4", "5", "6", "7", "8", "9">>

IsDigit(c) == \E d \in 1..10 : DigitChars[d] = c

DigitVal(c) == (CHOOSE d \in 1..10 : DigitChars[d] = c) - 1

RECURSIVE DigitsVal(_, _, _)
DigitsVal(s, i, acc) ==
    IF i > Len(s) THEN acc ELSE DigitsVal(s, i + 1, acc * 10 + DigitVal(Ch(s, i)))

AllDigits(s) == Len(s) > 0 /\ \A i \in 1..Len(s) : IsDigit(Ch(s, i))

\* int(s): an optional sign and decimal digits; anything else raises ValueError.
ParseInt(s) ==
    LET signed == Len(s) > 0 /\ Ch(s, 1) \in {"+", "-"}
        body   == IF signed THEN SubSeq(s, 2, Len(s)) ELSE s
    IN  IF AllDigits(body)
        THEN [ok |-> TRUE,
              val |-> IF signed /\ Ch(s, 1) = "-" THEN 0 - DigitsVal(body, 1, 0)
                      ELSE DigitsVal(body, 1, 0)]
        ELSE [ok |-> FALSE, val |-> 0]

(***************************************************************************)
(* The rules engine the script calls (python-chess), standard chess.       *)
(* Squares are 0..63, a1 = 0, h8 = 63; a piece is its FEN letter, an empty *)
(* square is "."; a placement is the 64 squares in that order, a string.   *)
(***************************************************************************)

Squares == 0..63

\* BaseBoard.piece_at(sq), as a FEN letter
PieceAt(pieces, sq) == SubSeq(pieces, sq + 1, sq + 1)

\* the placement with square sq set to c
WithPiece(pieces, sq, c) ==
    SubSeq(pieces, 1, sq) \o c \o SubSeq(pieces, sq + 2, Len(pieces))

FileOf(sq) == sq % 8

RankOf(sq) == sq \div 8

FileChars == <<"a", "b", "c", "d", "e", "f", "g", "h">>

UpperFileChars == <<"A", "B", "C", "D", "E", "F", "G", "H">>

\* chess.PIECE_SYMBOLS[1:]
PieceSymbols == <<"p", "n", "b", "r", "q", "k">>

UpperPieceSymbols == <<"P", "N", "B", "R", "Q", "K">>

IsWhitePiece(c) == \E k \in 1..6 : UpperPieceSymbols[k] = c

IsBlackPiece(c) == \E k \in 1..6 : PieceSymbols[k] = c

\* the colour ("w" or "b") of a piece letter
ColorOf(c) == IF IsWhitePiece(c) THEN "w" ELSE "b"

\* str.lower() of a piece letter
LowerPiece(c) ==
    IF IsWhitePiece(c)
    THEN PieceSymbols[CHOOSE k \in 1..6 : UpperPieceSymbols[k] = c]
    ELSE c

\* the letter of piece type t ("p".."k") for colour col
PieceChar(t, col) ==
    IF col = "w" THEN UpperPieceSymbols[CHOOSE k \in 1..6 : PieceSymbols[k] = t]
    ELSE t

Opponent(col) == IF col = "w" THEN "b" ELSE "w"

\* chess.SQUARE_NAMES.index(name), -1 where Python raises ValueError
SquareIndex(name) ==
    IF /\ Len(name) = 2
       /\ \E f \in 1..8 : FileChars[f] = Ch(name, 1)
       /\ \E r \in 1..8 : DigitChars[r + 1] = Ch(name, 2)
    THEN 8 * (DigitVal(Ch(name, 2)) - 1)
         + (CHOOSE f \in 1..8 : FileChars[f] = Ch(name, 1)) - 1
    ELSE -1

\* chess.SQUARE_NAMES[sq]
SquareName(sq) == FileChars[FileOf(sq) + 1] \o DigitChars[RankOf(sq) + 2]

\* n empty squares, n <= 64
Dots(n) ==
    SubSeq("................................................................", 1, n)

RECURSIVE ExpandRowFrom(_, _, _, _)
\* BaseBoard._set_board_fen, one row: digits become empty squares, two digits
\* in a row and letters that are no piece are refused.
ExpandRowFrom(row, i, prevDigit, acc) ==
    IF i > Len(row) THEN [ok |-> Len(acc) = 8, val |-> acc]
    ELSE LET c == Ch(row, i)
         IN  IF IsDigit(c) /\ c \notin {"0", "9"}
             THEN IF prevDigit THEN [ok |-> FALSE, val |-> acc]
                  ELSE ExpandRowFrom(row, i + 1, TRUE, acc \o Dots(DigitVal(c)))
             ELSE IF IsWhitePiece(c) \/ IsBlackPiece(c)
                  THEN ExpandRowFrom(row, i + 1, FALSE, acc \o c)
                  ELSE [ok |-> FALSE, val |-> acc]

ExpandRow(row) == ExpandRowFrom(row, 1, FALSE, "")

RECURSIVE ExpandRows(_, _)
\* the expanded rows from row r on, rank 8 first, as one string
ExpandRows(rows, r) ==
    IF r > Len(rows) THEN ""
    ELSE ExpandRow(rows[r]).val \o ExpandRows(rows, r + 1)

\* the 64 squares a1..h8 from the expanded rows, which come rank 8 first
FromRows(all) ==
    SubSeq(all, 57, 64) \o SubSeq(all, 49, 56) \o SubSeq(all, 41, 48)
    \o SubSeq(all, 33, 40) \o SubSeq(all, 25, 32) \o SubSeq(all, 17, 24)
    \o SubSeq(all, 9, 16) \o SubSeq(all, 1, 8)

\* BaseBoard._set_board_fen: the placement field as a map of the squares.
SetBoardFen(placement) ==
    CHOOSE outcome \in
        {IF Len(rows) # 8
         THEN [ok |-> FALSE, msg |-> "expected 8 rows in position part of fen",
               pieces |-> ""]
         ELSE IF \E r \in 1..8 : ~ExpandRow(rows[r]).ok
         THEN [ok |-> FALSE, msg |-> "invalid position part of fen",
               pieces |-> ""]
         ELSE [ok |-> TRUE, msg |-> "", pieces |-> FromRows(ExpandRows(rows, 1))] :
            rows \in {SplitOn(placement, "/")}} :
        TRUE

SetMax(S) == IF S = {} THEN -1 ELSE CHOOSE x \in S : \A y \in S : y <= x

SetMin(S) == IF S = {} THEN -1 ELSE CHOOSE x \in S : \A y \in S : x <= y

\* Board.king(color): the square of the king, -1 for None.
KingSq(pieces, col) == SetMax({sq \in Squares : PieceAt(pieces, sq) = PieceChar("k", col)})

BackRank(col) == IF col = "w" THEN 0 ELSE 7

\* the rooks of a colour on its back rank
BackRankRooks(pieces, col) ==
    {sq \in Squares : RankOf(sq) = BackRank(col) /\ PieceAt(pieces, sq) = PieceChar("r", col)}

\* chess.FEN_CASTLING_REGEX: - or [KQA-H]{0,2}[kqa-h]{0,2}
CastlingFieldOk(s) ==
    \/ s = "-"
    \/ \E n \in 0..2 :
         /\ n <= Len(s)
         /\ Len(s) - n <= 2
         /\ \A i \in 1..n :
              \/ Ch(s, i) \in {"K", "Q"}
              \/ \E f \in 1..8 : UpperFileChars[f] = Ch(s, i)
         /\ \A i \in (n + 1)..Len(s) :
              \/ Ch(s, i) \in {"k", "q"}
              \/ \E f \in 1..8 : FileChars[f] = Ch(s, i)

\* Board._set_castling_fen, one flag: the rook square it stands for.
CastlingFlagSquares(pieces, flag) ==
    LET white == flag \in {"K", "Q"} \/ \E f \in 1..8 : UpperFileChars[f] = flag
        col   == IF white THEN "w" ELSE "b"
        low   == IF white
                 THEN (IF flag = "K" THEN "k" ELSE IF flag = "Q" THEN "q"
                       ELSE FileChars[CHOOSE f \in 1..8 : UpperFileChars[f] = flag])
                 ELSE flag
        rooks == BackRankRooks(pieces, col)
        king  == KingSq(pieces, col)
    IN  IF low = "q"
        THEN IF king # -1 /\ SetMin(rooks) < king
             THEN (IF rooks = {} THEN {} ELSE {SetMin(rooks)})
             ELSE {8 * BackRank(col)}
        ELSE IF low = "k"
        THEN IF king # -1 /\ king < SetMax(rooks)
             THEN {SetMax(rooks)}
             ELSE {8 * BackRank(col) + 7}
        ELSE {8 * BackRank(col) + (CHOOSE f \in 1..8 : FileChars[f] = low) - 1}

\* Board._set_castling_fen
SetCastlingFen(pieces, s) ==
    IF s = "-" THEN {}
    ELSE UNION {CastlingFlagSquares(pieces, Ch(s, i)) : i \in 1..Len(s)}

NoBoard ==
    [pieces |-> Dots(64), turn |-> "w", castling_rights |-> {},
     ep_square |-> -1, halfmove_clock |-> 0, fullmove_number |-> 1,
     move_stack |-> <<>>]

\* Board.set_fen after fen.split(): f holds the fields.  Missing trailing
\* fields take their defaults; ok = FALSE where set_fen raises
\* ValueError(msg).
SetFenFields(f) ==
    LET field(k, dflt) == IF Len(f) >= k THEN f[k] ELSE dflt
        turn  == field(2, "w")
        cast  == field(3, "-")
        ep    == field(4, "-")
        half  == ParseInt(field(5, "0"))
        full  == ParseInt(field(6, "1"))
        err(m) == [ok |-> FALSE, msg |-> m, board |-> NoBoard]
    IN  IF Len(f) = 0 THEN err("empty fen")
        ELSE IF turn \notin {"w", "b"} THEN err("expected 'w' or 'b' for turn part of fen")
        ELSE IF ~CastlingFieldOk(cast) THEN err("invalid castling part in fen")
        ELSE IF ep # "-" /\ SquareIndex(ep) = -1 THEN err("invalid en passant part in fen")
        ELSE IF ~half.ok THEN err("invalid half-move clock in fen")
        ELSE IF half.val < 0 THEN err("half-move clock cannot be negative")
        ELSE IF ~full.ok THEN err("invalid fullmove number in fen")
        ELSE IF full.val < 0 THEN err("fullmove number cannot be negative")
        ELSE IF Len(f) > 6 THEN err("fen string has more parts than expected")
        ELSE CHOOSE outcome \in
                {IF ~place.ok THEN err(place.msg)
                 ELSE [ok |-> TRUE, msg |-> "",
                       board |-> [pieces |-> place.pieces,
                                  turn |-> turn,
                                  castling_rights |-> SetCastlingFen(place.pieces, cast),
                                  ep_square |-> SquareIndex(ep),
                                  halfmove_clock |-> half.val,
                                  fullmove_number |-> IF full.val < 1 THEN 1 ELSE full.val,
                                  move_stack |-> <<>>]] :
                    place \in {SetBoardFen(f[1])}} :
                TRUE

\* chess.Board(fen) for fen other than the starting FEN: Board.set_fen
SetFen(fen) == CHOOSE outcome \in {SetFenFields(f) : f \in {Split(fen)}} : TRUE

StartingFen == "rnbqkbnr/pppppppp/8/8/8/8/PPPPPPPP/RNBQKBNR w KQkq - 0 1"

\* chess.Board(): Board.reset()
StartBoard ==
    [pieces |-> "RNBQKBNRPPPPPPPP................................pppppppprnbqkbnr",
     turn |-> "w", castling_rights |-> {0, 7, 56, 63}, ep_square |-> -1,
     halfmove_clock |-> 0, fullmove_number |-> 1, move_stack |-> <<>>]

\* chess.Board(fen)
NewBoard(fen) ==
    IF fen = StartingFen THEN [ok |-> TRUE, msg |-> "", board |-> StartBoard]
    ELSE SetFen(fen)

(***************************************************************************)
(* Moves.  promotion and drop are a piece type "p".."k", or "" for None.   *)
(***************************************************************************)

Move(from, to, promo, drop) ==
    [from_square |-> from, to_square |-> to, promotion |-> promo, drop |-> drop]

\* the value from_uci never returns: stands for the raised InvalidMoveError
NoMove == Move(-1, -1, "", "")

\* chess.Move.null()
NullMove == Move(0, 0, "", "")

IsPieceSymbol(c) == \E k \in 1..6 : PieceSymbols[k] = c

\* chess.Move.from_uci(uci); ok = FALSE where it raises InvalidMoveError, a
\* ValueError.
FromUci(uci) ==
    IF uci = "0000" THEN [ok |-> TRUE, move |-> NullMove]
    ELSE IF Len(uci) = 4 /\ Ch(uci, 2) = "@"
    THEN LET sq == SquareIndex(SubSeq(uci, 3, 4))
             c  == Ch(uci, 1)
         IN  IF (IsWhitePiece(c) \/ IsBlackPiece(c)) /\ sq # -1
             THEN [ok |-> TRUE, move |-> Move(sq, sq, "", LowerPiece(c))]
             ELSE [ok |-> FALSE, move |-> NoMove]
    ELSE IF Len(uci) \in {4, 5}
    THEN LET from == SquareIndex(SubSeq(uci, 1, 2))
             to   == SquareIndex(SubSeq(uci, 3, 4))
             promoOk == Len(uci) = 4 \/ IsPieceSymbol(Ch(uci, 5))
         IN  IF from = -1 \/ to = -1 \/ ~promoOk \/ from = to
             THEN [ok |-> FALSE, move |-> NoMove]
             ELSE [ok |-> TRUE,
                   move |-> Move(from, to,
                                 IF Len(uci) = 5 THEN Ch(uci, 5) ELSE "", "")]
    ELSE [ok |-> FALSE, move |-> NoMove]

Abs(x) == IF x < 0 THEN 0 - x ELSE x

Sign(x) == IF x < 0 THEN -1 ELSE IF x > 0 THEN 1 ELSE 0

\* the squares strictly between two squares of one rank, file or diagonal
Between(a, b) ==
    LET df == FileOf(b) - FileOf(a)
        dr == RankOf(b) - RankOf(a)
        n  == IF Abs(df) > Abs(dr) THEN Abs(df) ELSE Abs(dr)
    IN  {a + k * (Sign(df) + 8 * Sign(dr)) : k \in 1..(n - 1)}

\* Board.attacks_mask(from) holds `to`: the piece on `from` attacks `to`.
Attacks(pieces, from, to) ==
    LET c  == PieceAt(pieces, from)
        t  == LowerPiece(c)
        df == FileOf(to) - FileOf(from)
        dr == RankOf(to) - RankOf(from)
        clear == \A sq \in Between(from, to) : PieceAt(pieces, sq) = "."
    IN  /\ c # "."
        /\ from # to
        /\ CASE t = "p" -> Abs(df) = 1 /\ dr = (IF c = "P" THEN 1 ELSE -1)
             [] t = "n" -> {Abs(df), Abs(dr)} = {1, 2}
             [] t = "k" -> Abs(df) <= 1 /\ Abs(dr) <= 1
             [] t = "b" -> Abs(df) = Abs(dr) /\ clear
             [] t = "r" -> (df = 0 \/ dr = 0) /\ clear
             [] t = "q" -> (df = 0 \/ dr = 0 \/ Abs(df) = Abs(dr)) /\ clear

\* Board.is_attacked_by(col, sq)
IsAttackedBy(pieces, col, sq) ==
    \E from \in Squares :
        /\ PieceAt(pieces, from) # "."
        /\ ColorOf(PieceAt(pieces, from)) = col
        /\ Attacks(pieces, from, sq)

OwnPiece(b, sq) == PieceAt(b.pieces, sq) # "." /\ ColorOf(PieceAt(b.pieces, sq)) = b.turn

EnemyPiece(b, sq) == PieceAt(b.pieces, sq) # "." /\ ColorOf(PieceAt(b.pieces, sq)) # b.turn

\* Board.is_en_passant(move)
IsEnPassant(b, m) ==
    /\ b.ep_square = m.to_square
    /\ b.ep_square # -1
    /\ LowerPiece(PieceAt(b.pieces, m.from_square)) = "p"
    /\ Abs(m.to_square - m.from_square) \in {7, 9}
    /\ PieceAt(b.pieces, m.to_square) = "."

\* the pawn moves of Board.generate_pseudo_legal_moves and
\* generate_pseudo_legal_ep from one square to one square
PawnPseudoLegal(b, m) ==
    LET from == m.from_square
        to   == m.to_square
        up   == IF b.turn = "w" THEN 8 ELSE -8
        last == RankOf(to) \in {0, 7}
        promoOk == IF last THEN m.promotion \in {"q", "r", "b", "n"}
                   ELSE m.promotion = ""
        capture == Attacks(b.pieces, from, to) /\ EnemyPiece(b, to)
        single  == to = from + up /\ PieceAt(b.pieces, to) = "."
        double  == /\ to = from + 2 * up
                   /\ RankOf(from) = (IF b.turn = "w" THEN 1 ELSE 6)
                   /\ PieceAt(b.pieces, from + up) = "."
                   /\ PieceAt(b.pieces, to) = "."
        ep      == /\ b.ep_square = to
                   /\ b.ep_square # -1
                   /\ PieceAt(b.pieces, to) = "."
                   /\ Attacks(b.pieces, from, to)
                   /\ RankOf(from) = (IF b.turn = "w" THEN 4 ELSE 3)
    IN  \/ (capture \/ single) /\ promoOk
        \/ double /\ m.promotion = ""
        \/ ep /\ m.promotion = ""

\* Board.is_pseudo_legal(move).  Castling (a king leaving e1 or e8 by two
\* files or onto its own rook) is not generated: no move token of this model
\* moves a king.
IsPseudoLegal(b, m) ==
    /\ m # NullMove
    /\ m.drop = ""
    /\ OwnPiece(b, m.from_square)
    /\ m.promotion # "" =>
         /\ LowerPiece(PieceAt(b.pieces, m.from_square)) = "p"
         /\ RankOf(m.to_square) = (IF b.turn = "w" THEN 7 ELSE 0)
    /\ ~OwnPiece(b, m.to_square)
    /\ IF LowerPiece(PieceAt(b.pieces, m.from_square)) = "p"
       THEN PawnPseudoLegal(b, m)
       ELSE Attacks(b.pieces, m.from_square, m.to_square)

\* the placement after Board.push(move)
PiecesAfter(b, m) ==
    LET from  == m.from_square
        to    == m.to_square
        down  == IF b.turn = "w" THEN -8 ELSE 8
        moved == IF m.promotion # "" THEN PieceChar(m.promotion, b.turn)
                 ELSE PieceAt(b.pieces, from)
        lifted == WithPiece(WithPiece(b.pieces, from, "."), to, moved)
    IN  IF IsEnPassant(b, m) THEN WithPiece(lifted, b.ep_square + down, ".")
        ELSE lifted

\* Board.is_into_check(move): the mover's king is attacked after the move.
IsIntoCheck(b, m) ==
    LET king == KingSq(b.pieces, b.turn)
    IN  /\ king # -1
        /\ \E after \in {PiecesAfter(b, m)} :
             IsAttackedBy(after, Opponent(b.turn),
                          IF m.from_square = king THEN m.to_square ELSE king)

\* move in board.legal_moves: Board.is_legal(move)
IsLegal(b, m) == IsPseudoLegal(b, m) /\ ~IsIntoCheck(b, m)

\* Board.clean_castling_rights(): once a move was pushed the rights are kept
\* as they are; before, only rights backed by a rook in its corner and the
\* king on e1 or e8 count.
CleanCastlingRights(b) ==
    IF b.move_stack # <<>> THEN b.castling_rights
    ELSE {sq \in b.castling_rights :
            LET col == IF RankOf(sq) = 0 THEN "w" ELSE "b"
            IN  /\ sq \in {0, 7, 56, 63}
                /\ PieceAt(b.pieces, sq) = PieceChar("r", col)
                /\ PieceAt(b.pieces, 8 * BackRank(col) + 4) = PieceChar("k", col)}

\* Board.push(move), for a move that is legal
Push(b, m) ==
    LET from   == m.from_square
        to     == m.to_square
        piece  == LowerPiece(PieceAt(b.pieces, from))
        zeroing == piece = "p" \/ EnemyPiece(b, to)
        kept   == CleanCastlingRights(b) \ {from, to}
    IN  [pieces |-> PiecesAfter(b, m),
         turn |-> Opponent(b.turn),
         castling_rights |->
             IF piece = "k"
             THEN {sq \in kept : RankOf(sq) # BackRank(b.turn)}
             ELSE kept,
         ep_square |->
             IF piece = "p" /\ to - from = 16 /\ RankOf(from) = 1 THEN from + 8
             ELSE IF piece = "p" /\ to - from = -16 /\ RankOf(from) = 6 THEN from - 8
             ELSE -1,
         halfmove_clock |-> IF zeroing THEN 0 ELSE b.halfmove_clock + 1,
         fullmove_number |-> IF b.turn = "b" THEN b.fullmove_number + 1
                             ELSE b.fullmove_number,
         move_stack |-> Append(b.move_stack, m)]

\* Board.has_legal_en_passant()
HasLegalEnPassant(b) ==
    /\ b.ep_square # -1
    /\ \E from \in Squares :
         LET m == Move(from, b.ep_square, "", "")
         IN  /\ PieceAt(b.pieces, from) = PieceChar("p", b.turn)
             /\ PieceAt(b.pieces, b.ep_square) = "."
             /\ RankOf(from) = (IF b.turn = "w" THEN 4 ELSE 3)
             /\ Attacks(b.pieces, from, b.ep_square)
             /\ ~IsIntoCheck(b, m)

RECURSIVE CompressRow(_, _, _)
\* one rank of BaseBoard.board_fen(): runs of empty squares become a digit
CompressRow(b, sq, empty) ==
    LET flush == IF empty > 0 THEN ToString(empty) ELSE ""
        rest  == IF FileOf(sq) = 7 THEN "" ELSE CompressRow(b, sq + 1, 0)
    IN  IF PieceAt(b.pieces, sq) = "."
        THEN IF FileOf(sq) = 7 THEN ToString(empty + 1)
             ELSE CompressRow(b, sq + 1, empty + 1)
        ELSE flush \o PieceAt(b.pieces, sq) \o rest

\* BaseBoard.board_fen(): rank 8 first
BoardPlacement(b) ==
    CompressRow(b, 56, 0) \o "/" \o CompressRow(b, 48, 0) \o "/"
    \o CompressRow(b, 40, 0) \o "/" \o CompressRow(b, 32, 0) \o "/"
    \o CompressRow(b, 24, 0) \o "/" \o CompressRow(b, 16, 0) \o "/"
    \o CompressRow(b, 8, 0) \o "/" \o CompressRow(b, 0, 0)

\* Board.castling_xfen(), standard chess
CastlingXfen(b) ==
    LET c == CleanCastlingRights(b)
        s == (IF 7 \in c THEN "K" ELSE "") \o (IF 0 \in c THEN "Q" ELSE "")
             \o (IF 63 \in c THEN "k" ELSE "") \o (IF 56 \in c THEN "q" ELSE "")
    IN  IF s = "" THEN "-" ELSE s

\* board.fen(): the en-passant square is written only when an en-passant
\* capture is legal (en_passant="legal", the default).
BoardFen(b) ==
    BoardPlacement(b)
    \o " " \o b.turn
    \o " " \o CastlingXfen(b)
    \o " " \o (IF HasLegalEnPassant(b) THEN SquareName(b.ep_square) ELSE "-")
    \o " " \o ToString(b.halfmove_clock)
    \o " " \o ToString(b.fullmove_number)

RECURSIVE SpacedRow(_, _)
SpacedRow(b, sq) ==
    PieceAt(b.pieces, sq) \o (IF FileOf(sq) = 7 THEN "" ELSE " " \o SpacedRow(b, sq + 1))

\* str(board): eight lines, rank 8 first
BoardText(b) ==
    SpacedRow(b, 56) \o "\n" \o SpacedRow(b, 48) \o "\n" \o SpacedRow(b, 40) \o "\n"
    \o SpacedRow(b, 32) \o "\n" \o SpacedRow(b, 24) \o "\n" \o SpacedRow(b, 16) \o "\n"
    \o SpacedRow(b, 8) \o "\n" \o SpacedRow(b, 0)

(***************************************************************************)
(* parse_uci_position, the pure parts.                                     *)
(***************************************************************************)

\* lines 30-31: uci_command[9:] when the command starts with "position "
StripPosition(cmd) ==
    IF StartsWith(cmd, "position ") THEN SubSeq(cmd, 10, Len(cmd)) ELSE cmd

\* line 37
PartsOf(cmd) == Split(StripPosition(cmd))

\* FenOf with the slice one short: parts[1:6]
FenOfFiveFields(ps) == Join(" ", Slice(ps, 1, 6))

\* lines 48-49: " ".join(parts[1:7])
FenOf(ps) == Join(" ", Slice(ps, 1, 7))

\* MovesOf looking for "moves" anywhere from start on
MovesAnywhere(ps, start) ==
    LET at == {i \in (start + 1)..Len(ps) : ps[i] = "moves"}
    IN  IF at = {} THEN <<>>
        ELSE SliceFrom(ps, CHOOSE i \in at : \A j \in at : i <= j)

\* lines 56-57: the tokens after "moves" when "moves" is parts[start]
MovesOf(ps, start) ==
    IF start < Len(ps) /\ ps[start + 1] = "moves"
    THEN SliceFrom(ps, start + 1)
    ELSE <<>>

\* IllegalWarning showing a fresh board's FEN for the current one
IllegalWarningFreshBoard(move_str, b) ==
    "Warning: Illegal move " \o move_str \o " at position " \o StartingFen

\* line 66
IllegalWarning(move_str, b) ==
    "Warning: Illegal move " \o move_str \o " at position " \o BoardFen(b)

\* line 69
InvalidWarning(move_str) == "Warning: Invalid move format " \o move_str

UsageText ==
    <<"Usage: python uci_to_fen.py \"position startpos moves d2d4 g8f6 ...\"",
      "\nExample:",
      "python uci_to_fen.py \"position startpos moves d2d4 g8f6 c2c4\"">>

BadKeywordMessage == "UCI command must start with 'startpos' or 'fen'"

(***************************************************************************)
(* The commands the model runs.                                            *)
(***************************************************************************)

\* the longest move list tried
MaxMoves == 2

\* legal somewhere (e2e4, e7e5, d4e3 en passant), never legal where it is
\* tried (e2e5), and not decodable (e9e4)
MoveTokens == {"e2e4", "e7e5", "d4e3", "e2e5", "e9e4"}

RECURSIVE SeqsUpTo(_, _)
SeqsUpTo(S, n) ==
    IF n = 0 THEN {<<>>}
    ELSE LET shorter == SeqsUpTo(S, n - 1)
         IN  shorter \cup {Append(q, x) : q \in {r \in shorter : Len(r) = n - 1}, x \in S}

FenAfterE4 == "rnbqkbnr/pppppppp/8/8/4P3/8/PPPP1PPP/RNBQKBNR b KQkq e3 0 1"

FenEnPassant == "rnbqkbnr/ppp1pppp/8/8/3pP3/8/PPPP1PPP/RNBQKBNR b KQkq e3 0 3"

FenBare == "4k3/8/8/8/8/8/4P3/4K3 w KQ - 5 0"

FullFens == {StartingFen, FenAfterE4, FenEnPassant, FenBare}

BadFens ==
    {"rnbqkbnr/pppppppp/8/8/8/8/PPPPPPPP w KQkq - 0 1",
     "rnbqkbnr/pppppppp/8/8/8/8/PPPPPPPP/RNBQKBNR x KQkq - 0 1",
     "rnbqkbnr/pppppppp/8/8/8/8/PPPPPPPP/RNBQKBNR w KQkq - 0 one"}

\* how the tokens of a command are laid out in the string
Layouts == {"plain", "prefixed", "padded", "prefixed-padded", "tabbed"}

Layout(kind, tokens) ==
    CASE kind = "plain"           -> Join(" ", tokens)
      [] kind = "prefixed"        -> "position " \o Join(" ", tokens)
      [] kind = "padded"          -> "  " \o Join("  ", tokens) \o " "
      [] kind = "prefixed-padded" -> "position   " \o Join(" \t", tokens) \o "\n"
      [] kind = "tabbed"          -> "position\t" \o Join("\t", tokens)

\* a starting configuration followed by "moves" and up to MaxMoves tokens
MoveCommands ==
    {Layout("prefixed", h \o <<"moves">> \o ms) :
        h \in {<<"startpos">>}
              \cup {<<"fen">> \o Split(f) : f \in {FenAfterE4, FenEnPassant}},
        ms \in SeqsUpTo(MoveTokens, MaxMoves)}

ShapeHeads ==
    {<<>>, <<"startpos">>, <<"foo">>, <<"foo", "startpos">>, <<"position">>,
     <<"Startpos">>}
    \cup {<<"fen">> \o Slice(Split(f), 0, k) : f \in {FenAfterE4, FenEnPassant}, k \in 0..6}
    \cup {<<"fen">> \o Split(f) : f \in BadFens \cup FullFens}

ShapeTails ==
    {<<>>, <<"moves">>, <<"e2e4">>, <<"moves", "e2e4">>, <<"moves", "e7e5">>,
     <<"e2e4", "moves", "e7e5">>, <<"moves", "moves", "e2e4">>,
     <<"moves", "e2e4", "e7e5", "g1f3">>,
     <<"moves", "e2e4", "e7e5", "g1f3", "e2e5">>,
     <<"moves", "e2e4", "e2e5", "e7e5">>,
     <<"moves", "e7e5", "g1f3", "e9e4", "e2e4">>}

\* every shape of command the parser tells apart, in every layout
ShapeCommands ==
    {Layout(k, h \o t) : k \in Layouts, h \in ShapeHeads, t \in ShapeTails}

Commands == MoveCommands \cup ShapeCommands

\* sys.argv[1:]
ArgLists ==
    {<<>>} \cup {<<c>> : c \in Commands}
    \cup {<<c, "extra">> : c \in {"startpos", "position startpos moves e2e4"}}

(***************************************************************************)
(* The run: main() and parse_uci_position(), one action per step.          *)
(***************************************************************************)

Init ==
    /\ argv \in ArgLists
    /\ pc = "main"
    /\ uci_command = ""
    /\ parts = <<>>
    /\ board = NoBoard
    /\ start_idx = 0
    /\ moves = <<>>
    /\ idx = 0
    /\ decoded = <<>>
    /\ stdout = <<>>
    /\ result = <<>>
    /\ exc = <<>>
    /\ exit_code = <<>>

\* lines 76-80: the argument count is not one
MainUsage ==
    /\ pc = "main"
    /\ Len(argv) # 1
    /\ stdout' = stdout \o UsageText
    /\ exit_code' = <<1>>
    /\ pc' = "exit"
    /\ UNCHANGED <<argv, uci_command, parts, board, start_idx, moves, idx,
                   decoded, result, exc>>

\* lines 82-85: main calls parse_uci_position(sys.argv[1])
MainCall ==
    /\ pc = "main"
    /\ Len(argv) = 1
    /\ uci_command' = argv[1]
    /\ pc' = "parse"
    /\ UNCHANGED <<argv, parts, board, start_idx, moves, idx, decoded, stdout,
                   result, exc, exit_code>>

\* lines 30-37: the prefix is stripped, a fresh board made, the rest split
Tokenize ==
    /\ pc = "parse"
    /\ uci_command' = StripPosition(uci_command)
    /\ board' = StartBoard
    /\ parts' = PartsOf(uci_command)
    /\ pc' = "start"
    /\ UNCHANGED <<argv, start_idx, moves, idx, decoded, stdout, result, exc,
                   exit_code>>

\* ParseEmpty without the guard of line 39: parts[0] raises IndexError
ParseEmptyIndexError ==
    /\ pc = "start"
    /\ parts = <<>>
    /\ exc' = <<"list index out of range">>
    /\ pc' = "except"
    /\ UNCHANGED <<argv, uci_command, parts, board, start_idx, moves, idx,
                   decoded, stdout, result, exit_code>>

\* lines 39-40: no token at all, the starting position is returned
ParseEmpty ==
    /\ pc = "start"
    /\ parts = <<>>
    /\ result' = <<BoardFen(board)>>
    /\ pc' = "report"
    /\ UNCHANGED <<argv, uci_command, parts, board, start_idx, moves, idx,
                   decoded, stdout, exc, exit_code>>

\* lines 43-45, 56-57
ParseStartpos ==
    /\ pc = "start"
    /\ parts # <<>>
    /\ parts[1] = "startpos"
    /\ start_idx' = 1
    /\ moves' = MovesOf(parts, 1)
    /\ idx' = 0
    /\ pc' = "loop"
    /\ UNCHANGED <<argv, uci_command, parts, board, decoded, stdout, result,
                   exc, exit_code>>

\* lines 46-51, 56-57: chess.Board(fen) accepts the joined slice
ParseFenOk ==
    /\ pc = "start"
    /\ parts # <<>>
    /\ parts[1] = "fen"
    /\ \E new \in {NewBoard(fen) : fen \in {FenOf(parts)}} :
         /\ new.ok
         /\ board' = new.board
    /\ start_idx' = 7
    /\ moves' = MovesOf(parts, 7)
    /\ idx' = 0
    /\ pc' = "loop"
    /\ UNCHANGED <<argv, uci_command, parts, decoded, stdout, result, exc,
                   exit_code>>

\* lines 46-50: chess.Board(fen) raises ValueError
ParseFenRaises ==
    /\ pc = "start"
    /\ parts # <<>>
    /\ parts[1] = "fen"
    /\ \E new \in {NewBoard(fen) : fen \in {FenOf(parts)}} :
         /\ ~new.ok
         /\ exc' = <<new.msg>>
    /\ pc' = "except"
    /\ UNCHANGED <<argv, uci_command, parts, board, start_idx, moves, idx,
                   decoded, stdout, result, exit_code>>

\* ParseBadKeyword with the else branch of line 52 lost: an unknown keyword is
\* taken as startpos
ParseBadKeywordAsStartpos ==
    /\ pc = "start"
    /\ parts # <<>>
    /\ parts[1] \notin {"startpos", "fen"}
    /\ start_idx' = 1
    /\ moves' = MovesOf(parts, 1)
    /\ idx' = 0
    /\ pc' = "loop"
    /\ UNCHANGED <<argv, uci_command, parts, board, decoded, stdout, result,
                   exc, exit_code>>

\* lines 52-53: the first token is neither startpos nor fen
ParseBadKeyword ==
    /\ pc = "start"
    /\ parts # <<>>
    /\ parts[1] \notin {"startpos", "fen"}
    /\ exc' = <<BadKeywordMessage>>
    /\ pc' = "except"
    /\ UNCHANGED <<argv, uci_command, parts, board, start_idx, moves, idx,
                   decoded, stdout, result, exit_code>>

\* ApplyMove without the push of line 64
ApplyMoveNoPush ==
    /\ pc = "loop"
    /\ idx < Len(moves)
    /\ \E d \in {FromUci(moves[idx + 1])} :
         /\ d.ok
         /\ IsLegal(board, d.move)
    /\ decoded' = Append(decoded, moves[idx + 1])
    /\ idx' = idx + 1
    /\ UNCHANGED <<argv, pc, uci_command, parts, board, start_idx, moves, stdout,
                   result, exc, exit_code>>

\* ApplyMove that does not move on to the next token
ApplyMoveRetry ==
    /\ pc = "loop"
    /\ idx < Len(moves)
    /\ \E d \in {FromUci(moves[idx + 1])} :
         /\ d.ok
         /\ IsLegal(board, d.move)
         /\ board' = Push(board, d.move)
    /\ decoded' = Append(decoded, moves[idx + 1])
    /\ UNCHANGED <<argv, pc, uci_command, parts, start_idx, moves, idx, stdout,
                   result, exc, exit_code>>

\* lines 60-64: the token decodes to a legal move, which is pushed
ApplyMove ==
    /\ pc = "loop"
    /\ idx < Len(moves)
    /\ \E d \in {FromUci(moves[idx + 1])} :
         /\ d.ok
         /\ IsLegal(board, d.move)
         /\ board' = Push(board, d.move)
    /\ decoded' = Append(decoded, moves[idx + 1])
    /\ idx' = idx + 1
    /\ UNCHANGED <<argv, pc, uci_command, parts, start_idx, moves, stdout,
                   result, exc, exit_code>>

\* StopIllegal with continue for the break of line 67
SkipIllegal ==
    /\ pc = "loop"
    /\ idx < Len(moves)
    /\ \E d \in {FromUci(moves[idx + 1])} :
         /\ d.ok
         /\ ~IsLegal(board, d.move)
    /\ stdout' = Append(stdout, IllegalWarning(moves[idx + 1], board))
    /\ decoded' = Append(decoded, moves[idx + 1])
    /\ idx' = idx + 1
    /\ UNCHANGED <<argv, pc, uci_command, parts, board, start_idx, moves,
                   result, exc, exit_code>>

\* lines 60-63, 65-67: the token decodes to a move that is not legal
StopIllegal ==
    /\ pc = "loop"
    /\ idx < Len(moves)
    /\ \E d \in {FromUci(moves[idx + 1])} :
         /\ d.ok
         /\ ~IsLegal(board, d.move)
    /\ stdout' = Append(stdout, IllegalWarning(moves[idx + 1], board))
    /\ decoded' = Append(decoded, moves[idx + 1])
    /\ pc' = "return"
    /\ UNCHANGED <<argv, uci_command, parts, board, start_idx, moves, idx,
                   result, exc, exit_code>>

\* lines 60-62, 68-70: from_uci raises ValueError
StopMalformed ==
    /\ pc = "loop"
    /\ idx < Len(moves)
    /\ ~FromUci(moves[idx + 1]).ok
    /\ stdout' = Append(stdout, InvalidWarning(moves[idx + 1]))
    /\ decoded' = Append(decoded, moves[idx + 1])
    /\ pc' = "return"
    /\ UNCHANGED <<argv, uci_command, parts, board, start_idx, moves, idx,
                   result, exc, exit_code>>

\* line 60: the move list is exhausted (or was empty)
LoopExhausted ==
    /\ pc = "loop"
    /\ idx = Len(moves)
    /\ pc' = "return"
    /\ UNCHANGED <<argv, uci_command, parts, board, start_idx, moves, idx,
                   decoded, stdout, result, exc, exit_code>>

\* line 72
ReturnFen ==
    /\ pc = "return"
    /\ result' = <<BoardFen(board)>>
    /\ pc' = "report"
    /\ UNCHANGED <<argv, uci_command, parts, board, start_idx, moves, idx,
                   decoded, stdout, exc, exit_code>>

\* line 86
MainShowFen ==
    /\ pc = "report"
    /\ stdout' = Append(stdout, "FEN: " \o result[1])
    /\ pc' = "render"
    /\ UNCHANGED <<argv, uci_command, parts, board, start_idx, moves, idx,
                   decoded, result, exc, exit_code>>

\* lines 89-91, and the normal end of the process
MainShowBoard ==
    /\ pc = "render"
    /\ \E new \in {NewBoard(result[1])} :
         IF new.ok
         THEN /\ stdout' = stdout \o <<"\nBoard:", BoardText(new.board)>>
              /\ exit_code' = <<0>>
              /\ pc' = "exit"
              /\ exc' = exc
         ELSE /\ exc' = <<new.msg>>
              /\ pc' = "except"
              /\ UNCHANGED <<stdout, exit_code>>
    /\ UNCHANGED <<argv, uci_command, parts, board, start_idx, moves, idx,
                   decoded, result>>

\* MainExcept without the sys.exit(1) of line 95
MainExceptNoExit ==
    /\ pc = "except"
    /\ stdout' = Append(stdout, "Error: " \o exc[1])
    /\ exit_code' = <<0>>
    /\ pc' = "exit"
    /\ UNCHANGED <<argv, uci_command, parts, board, start_idx, moves, idx,
                   decoded, result, exc>>

\* lines 93-95
MainExcept ==
    /\ pc = "except"
    /\ stdout' = Append(stdout, "Error: " \o exc[1])
    /\ exit_code' = <<1>>
    /\ pc' = "exit"
    /\ UNCHANGED <<argv, uci_command, parts, board, start_idx, moves, idx,
                   decoded, result, exc>>

Next ==
    \/ MainUsage
    \/ MainCall
    \/ Tokenize
    \/ ParseEmpty
    \/ ParseStartpos
    \/ ParseFenOk
    \/ ParseFenRaises
    \/ ParseBadKeyword
    \/ ApplyMove
    \/ StopIllegal
    \/ StopMalformed
    \/ LoopExhausted
    \/ ReturnFen
    \/ MainShowFen
    \/ MainShowBoard
    \/ MainExcept

Spec == Init /\ [][Next]_vars

\* the interpreter runs the script to its end: no step waits on anything
FairSpec == Spec /\ WF_vars(Next)

(***************************************************************************)
(* What the claims speak of.                                               *)
(***************************************************************************)

\* the run was given exactly one argument, the command
OneArg == Len(argv) = 1

\* the tokens of the command as given on the command line
Tokens == PartsOf(argv[1])

\* parse_uci_position is past its parsing: a board exists and the loop was
\* reached or left
AfterParse == pc \in {"loop", "return", "report", "render"} \/ (pc = "exit" /\ result # <<>>)

\* the loop is over and the function returned
Returned == result # <<>>

\* the board the parsed command starts from
InitialBoard ==
    IF parts # <<>> /\ parts[1] = "fen" THEN NewBoard(FenOf(parts)).board
    ELSE StartBoard

RECURSIVE GoodFrom(_, _, _)
\* how many leading tokens of ms, from the i-th on, decode and are legal one
\* after the other starting from board b (counted from the start of ms)
GoodFrom(b, ms, i) ==
    IF i > Len(ms) THEN Len(ms)
    ELSE LET d == FromUci(ms[i])
         IN  IF d.ok /\ IsLegal(b, d.move)
             THEN GoodFrom(Push(b, d.move), ms, i + 1)
             ELSE i - 1

GoodPrefixLen(b, ms) == GoodFrom(b, ms, 1)

RECURSIVE PlayAll(_, _)
\* the rules engine driven directly: every token of ms decoded and pushed
PlayAll(b, ms) ==
    IF ms = <<>> THEN b
    ELSE PlayAll(Push(b, FromUci(ms[1]).move), Tail(ms))

\* the lines of stdout starting with p
LinesStarting(p) == {i \in 1..Len(stdout) : StartsWith(stdout[i], p)}

AllSpace(s) == \A i \in 1..Len(s) : IsSpace(Ch(s, i))

(***************************************************************************)
(* C1.  A command "fen" followed by fewer than six tokens fails: no board  *)
(* is built from the shortened slice and no FEN is returned.               *)
(***************************************************************************)

TruncatedFen == OneArg /\ Tokens # <<>> /\ Tokens[1] = "fen" /\ Len(Tokens) - 1 < 6

C1_TruncatedFenFails ==
    TruncatedFen =>
        /\ ~AfterParse
        /\ result = <<>>
        /\ pc = "exit" => exit_code = <<1>> /\ exc # <<>>

(***************************************************************************)
(* C2.  A command whose first token is neither startpos nor fen fails with *)
(* the malformed-command ValueError: no move token is decoded or applied,  *)
(* nothing is returned, no FEN is shown.                                   *)
(***************************************************************************)

BadKeyword == OneArg /\ Tokens # <<>> /\ Tokens[1] \notin {"startpos", "fen"}

C2_BadKeywordFails ==
    BadKeyword =>
        /\ pc \in {"main", "parse", "start", "except", "exit"}
        /\ decoded = <<>>
        /\ board.move_stack = <<>>
        /\ result = <<>>
        /\ LinesStarting("FEN:") = {}
        /\ LinesStarting("Warning:") = {}
        /\ pc \in {"except", "exit"} => exc = <<BadKeywordMessage>>
        /\ pc = "exit" => exit_code = <<1>>

\* a bad keyword behind a stripped "position " prefix, move tokens after it
C2_Witness ==
    /\ BadKeyword
    /\ pc = "exit"
    /\ StartsWith(argv[1], "position ")
    /\ Len(Tokens) >= 3
    /\ exit_code = <<1>>

(***************************************************************************)
(* C3.  Move application stops at the first token that does not decode or  *)
(* is not legal: nothing after it is decoded, the failing token leaves the *)
(* board as it was, and the FEN returned is that of the position reached   *)
(* by exactly the tokens before it.                                        *)
(***************************************************************************)

C3_StopsAtFirstFailure ==
    LET n == GoodPrefixLen(InitialBoard, moves)
    IN  /\ pc = "loop" =>
             /\ idx <= n
             /\ decoded = SubSeq(moves, 1, idx)
             /\ board = PlayAll(InitialBoard, SubSeq(moves, 1, idx))
        /\ (AfterParse /\ pc # "loop" /\ n < Len(moves)) =>
             /\ idx = n
             /\ decoded = SubSeq(moves, 1, n + 1)
             /\ board = PlayAll(InitialBoard, SubSeq(moves, 1, n))
             /\ Len(board.move_stack) = n
             /\ Returned =>
                  result = <<BoardFen(PlayAll(InitialBoard, SubSeq(moves, 1, n)))>>

\* a run stopped by its second token, with a token left after it
C3_Witness ==
    /\ pc = "exit"
    /\ Returned
    /\ GoodPrefixLen(InitialBoard, moves) = 1
    /\ Len(moves) = 3
    /\ Len(decoded) = 2

(***************************************************************************)
(* C4.  One illegal token appended to a legal move list: the FEN returned  *)
(* is that of the legal list, and one warning names the offending token    *)
(* and the FEN of the position it was refused in.  (As claimed: names the  *)
(* token by its text and by its index in the move list.)                   *)
(***************************************************************************)

\* the move list is legal up to its last token, which decodes and is not legal
IllegalAppended ==
    /\ AfterParse
    /\ moves # <<>>
    /\ GoodPrefixLen(InitialBoard, moves) = Len(moves) - 1
    /\ FromUci(moves[Len(moves)]).ok

C4_PrefixFenAndWarning ==
    (pc = "exit" /\ IllegalAppended) =>
        LET legal == SubSeq(moves, 1, Len(moves) - 1)
            warns == LinesStarting("Warning:")
        IN  /\ result = <<BoardFen(PlayAll(InitialBoard, legal))>>
            /\ exit_code = <<0>>
            /\ Cardinality(warns) = 1
            /\ \A w \in warns :
                 stdout[w] = "Warning: Illegal move " \o moves[Len(moves)]
                             \o " at position " \o result[1]

\* the words of a warning before the six fields of its FEN hold the index of
\* the offending token, counted from 0 or from 1
WarningNamesIndex ==
    \E w \in LinesStarting("Warning:") :
        LET words == Split(stdout[w])
            head  == SubSeq(words, 1, Len(words) - 6)
        IN  \E k \in 1..Len(head) :
                head[k] \in {ToString(Len(moves) - 1), ToString(Len(moves))}

C4_AsClaimed ==
    (pc = "exit" /\ IllegalAppended) => C4_PrefixFenAndWarning /\ WarningNamesIndex

\* three legal moves and an illegal fourth
C4_Witness ==
    /\ pc = "exit"
    /\ IllegalAppended
    /\ Len(moves) = 4
    /\ Len(board.move_stack) = 3

(***************************************************************************)
(* C5.  The process ends with code 0 and one "FEN: <fen>" line exactly     *)
(* when a board was constructed (all moves applied, or stopped early at a  *)
(* malformed or illegal token), and with code 1 and no FEN line otherwise: *)
(* argument count not one, bad keyword, FEN refused by the rules engine.   *)
(***************************************************************************)

\* the command names a starting configuration the rules engine accepts
Constructed ==
    /\ OneArg
    /\ \/ Tokens = <<>>
       \/ Tokens[1] = "startpos"
       \/ Tokens[1] = "fen" /\ NewBoard(FenOf(Tokens)).ok

C5_ExitCodes ==
    /\ LinesStarting("FEN:") # {} => Constructed /\ Returned
    /\ pc = "exit" =>
         /\ exit_code \in {<<0>>, <<1>>}
         /\ exit_code = <<0>> <=> Constructed
         /\ Constructed =>
              /\ Returned
              /\ Cardinality(LinesStarting("FEN:")) = 1
              /\ \A i \in LinesStarting("FEN:") : stdout[i] = "FEN: " \o result[1]
         /\ ~Constructed => LinesStarting("FEN:") = {} /\ result = <<>>

\* an early stop that still ends with code 0 and the FEN
C5_Witness ==
    /\ pc = "exit"
    /\ exit_code = <<0>>
    /\ LinesStarting("Warning:") # {}
    /\ LinesStarting("FEN:") # {}

(***************************************************************************)
(* C6.  A command with no token (empty, whitespace only, or "position "    *)
(* and nothing but whitespace) and a command startpos with an empty move   *)
(* list return exactly the default starting FEN, without error.            *)
(***************************************************************************)

NoTokenCommand ==
    /\ OneArg
    /\ \/ AllSpace(argv[1])
       \/ StartsWith(argv[1], "position ") /\ AllSpace(SubSeq(argv[1], 10, Len(argv[1])))

StartposNoMoves ==
    /\ OneArg
    /\ Tokens # <<>>
    /\ Tokens[1] = "startpos"
    /\ (Len(Tokens) = 1 \/ Tokens[2] # "moves" \/ Len(Tokens) = 2)

C6_DefaultStartingFen ==
    (NoTokenCommand \/ StartposNoMoves) =>
        /\ exc = <<>>
        /\ LinesStarting("Warning:") = {}
        /\ pc \in {"report", "render", "exit"} => result = <<StartingFen>>
        /\ pc = "exit" => exit_code = <<0>>

\* "position " followed by whitespace only
C6_Witness ==
    /\ pc = "exit"
    /\ NoTokenCommand
    /\ Len(argv[1]) > 9
    /\ result = <<StartingFen>>

(***************************************************************************)
(* C7.  "fen F" with zero moves, F a valid six-field FEN: the FEN returned *)
(* is F with its en-passant field replaced by "-" unless an en-passant     *)
(* capture is legal in F; the other five fields are F's.  (As claimed:     *)
(* identical to F field for field.)                                        *)
(***************************************************************************)

PlainNumber(s) == AllDigits(s) /\ (Len(s) = 1 \/ Ch(s, 1) # "0")

HasChar(s, c) == \E i \in 1..Len(s) : Ch(s, i) = c

\* the castling field is - or letters of KQkq in that order, each with its
\* king and rook on their home squares
StrictCastling(s, pieces) ==
    LET pick(c) == IF HasChar(s, c) THEN c ELSE ""
    IN  \/ s = "-"
        \/ /\ s = pick("K") \o pick("Q") \o pick("k") \o pick("q")
           /\ HasChar(s, "K") => PieceAt(pieces, 4) = "K" /\ PieceAt(pieces, 7) = "R"
           /\ HasChar(s, "Q") => PieceAt(pieces, 4) = "K" /\ PieceAt(pieces, 0) = "R"
           /\ HasChar(s, "k") => PieceAt(pieces, 60) = "k" /\ PieceAt(pieces, 63) = "r"
           /\ HasChar(s, "q") => PieceAt(pieces, 60) = "k" /\ PieceAt(pieces, 56) = "r"

\* the en-passant field is - or the square a pawn of the side that just moved
\* has passed over in a double step
StrictEnPassant(s, b) ==
    \/ s = "-"
    \/ LET sq == SquareIndex(s)
       IN  /\ sq # -1
           /\ PieceAt(b.pieces, sq) = "."
           /\ \/ /\ b.turn = "b" /\ RankOf(sq) = 2
                 /\ PieceAt(b.pieces, sq + 8) = "P" /\ PieceAt(b.pieces, sq - 8) = "."
              \/ /\ b.turn = "w" /\ RankOf(sq) = 5
                 /\ PieceAt(b.pieces, sq - 8) = "p" /\ PieceAt(b.pieces, sq + 8) = "."

\* F is a six-field FEN as the notation defines it
StrictFen(F) ==
    LET f == Split(F)
        new == NewBoard(F)
    IN  /\ Len(f) = 6
        /\ new.ok
        /\ StrictCastling(f[3], new.board.pieces)
        /\ StrictEnPassant(f[4], new.board)
        /\ PlainNumber(f[5])
        /\ PlainNumber(f[6])
        /\ f[6] # "0"

\* the six tokens given after fen, single-spaced
GivenFen == Join(" ", SubSeq(Tokens, 2, 7))

\* the run is "fen F" with F valid and no move, and has returned
FenNoMoves ==
    /\ OneArg
    /\ Tokens # <<>>
    /\ Tokens[1] = "fen"
    /\ Len(Tokens) >= 7
    /\ StrictFen(GivenFen)
    /\ Returned
    /\ moves = <<>>

C7_AsClaimed == FenNoMoves => result = <<GivenFen>>

C7_RoundTripButEnPassant ==
    FenNoMoves =>
        LET f == Split(GivenFen)
            b == NewBoard(GivenFen).board
        IN  result = <<Join(" ", <<f[1], f[2], f[3],
                                   IF HasLegalEnPassant(b) THEN f[4] ELSE "-",
                                   f[5], f[6]>>)>>

\* an en-passant square no pawn can capture on is not written back
C7_Witness ==
    /\ FenNoMoves
    /\ pc = "exit"
    /\ Tokens[5] # "-"
    /\ Split(result[1])[4] = "-"

(***************************************************************************)
(* C8.  A move list legal throughout: every move is applied once, in the   *)
(* order given, and the FEN returned is that of the rules engine driven    *)
(* directly with the same moves.                                           *)
(***************************************************************************)

AllLegal == AfterParse /\ GoodPrefixLen(InitialBoard, moves) = Len(moves)

C8_LegalListApplied ==
    (AllLegal /\ pc # "loop") =>
        /\ decoded = moves
        /\ board.move_stack = [k \in 1..Len(moves) |-> FromUci(moves[k]).move]
        /\ board = PlayAll(InitialBoard, moves)
        /\ LinesStarting("Warning:") = {}
        /\ Returned => result = <<BoardFen(PlayAll(InitialBoard, moves))>>

\* three legal moves, all applied
C8_Witness ==
    /\ pc = "exit"
    /\ AllLegal
    /\ Len(moves) = 3
    /\ Len(board.move_stack) = 3

(***************************************************************************)
(* C9.  The move list is the tokens after "moves" only when "moves" is the *)
(* token at the starting index (1 after startpos, 7 after fen); otherwise  *)
(* the move list is empty, the trailing tokens are ignored without error   *)
(* and the FEN returned is that of the starting configuration.             *)
(***************************************************************************)

StartIndexOf(ps) == IF ps[1] = "startpos" THEN 1 ELSE 7

C9_MovesAtStartIndex ==
    (AfterParse /\ Tokens # <<>>) =>
        LET s == StartIndexOf(Tokens)
        IN  /\ start_idx = s
            /\ IF Len(Tokens) > s /\ Tokens[s + 1] = "moves"
               THEN moves = SubSeq(Tokens, s + 2, Len(Tokens))
               ELSE /\ moves = <<>>
                    /\ decoded = <<>>
                    /\ exc = <<>>
                    /\ LinesStarting("Warning:") = {}
                    /\ LinesStarting("Error:") = {}
                    /\ Returned => result = <<BoardFen(InitialBoard)>>
                    /\ pc = "exit" => exit_code = <<0>>

\* a move token and a later "moves" after startpos, all ignored
C9_Witness ==
    /\ pc = "exit"
    /\ AfterParse
    /\ Len(Tokens) >= 4
    /\ Tokens[1] = "startpos"
    /\ Tokens[2] # "moves"
    /\ Tokens[3] = "moves"
    /\ result = <<StartingFen>>

(***************************************************************************)
(* C10.  A run goes Initializing -> Applying(i) -> Applying(i+1), Stopped  *)
(* or Complete: the index grows by one per accepted move, each token is    *)
(* tried at most once, no phase is left for an earlier one, the terminal   *)
(* phases are never left, and every run ends in a terminal phase: one that *)
(* entered the loop in Stopped or Complete, since Applying is left for     *)
(* nothing else.  (A command without tokens returns at line 40 and is      *)
(* Complete without entering the loop; Aborted is the end of a run that    *)
(* raised before the loop.)                                                *)
(***************************************************************************)

Phase ==
    IF pc \in {"main", "parse", "start"} THEN "Initializing"
    ELSE IF pc = "loop" THEN "Applying"
    ELSE IF result = <<>> /\ pc \in {"except", "exit"} THEN "Aborted"
    ELSE IF LinesStarting("Warning:") # {} THEN "Stopped"
    ELSE "Complete"

C10_Step ==
    /\ Phase = "Initializing" =>
         /\ Phase' \in {"Initializing", "Applying", "Complete", "Aborted"}
         /\ Phase' = "Applying" => idx' = 0 /\ decoded' = <<>>
         /\ Phase' = "Complete" => moves' = <<>> /\ decoded' = <<>>
    /\ Phase = "Applying" =>
         /\ Phase' \in {"Applying", "Stopped", "Complete"}
         /\ Phase' = "Applying" =>
              /\ idx' = idx + 1
              /\ decoded' = Append(decoded, moves[idx + 1])
              /\ Len(board'.move_stack) = Len(board.move_stack) + 1
         /\ Phase' = "Stopped" =>
              /\ idx' = idx
              /\ idx < Len(moves)
              /\ decoded' = Append(decoded, moves[idx + 1])
              /\ board' = board
         /\ Phase' = "Complete" => idx = Len(moves) /\ decoded' = decoded /\ board' = board
    /\ Phase \in {"Stopped", "Complete", "Aborted"} =>
         /\ Phase' = Phase
         /\ idx' = idx
         /\ board' = board
         /\ decoded' = decoded
    /\ moves' = moves \/ Phase = "Initializing"

C10_StateMachine ==
    /\ [][C10_Step]_vars
    /\ [](decoded = SubSeq(moves, 1, Len(decoded)) /\ idx <= Len(moves))
    /\ <>(/\ pc = "exit"
          /\ Phase \in {"Stopped", "Complete", "Aborted"}
          /\ start_idx # 0 => Phase \in {"Stopped", "Complete"})

\* a run that applied two moves and stopped on the third token
C10_Witness ==
    /\ pc = "exit"
    /\ Phase = "Stopped"
    /\ idx = 2
    /\ Len(decoded) = 3

====
